---- MODULE Spec2Model ----
(***************************************************************************)
(* State-machine model of go/stats/timings.go: Timings and MultiTimings.   *)
(*                                                                         *)
(* Strings are sequences of one-character strings, so that joining and     *)
(* comparing category names is computed and not assumed.  Maps and         *)
(* Histograms are heap objects addressed by identifiers, so that sharing   *)
(* (a map returned to a caller, a *Histogram held by an Add in flight)     *)
(* is visible.  Every lock operation and every atomic operation of a       *)
(* method is one step of the calling thread.                               *)
(***************************************************************************)
EXTENDS Integers, Sequences, FiniteSets, TLC

\* ------------------------------------------------------------------ bounds

\* Number of concurrent callers.
NumThreads == 2

\* Number of calls (of any method) started in one behaviour.
MaxOps == 3

\* Number of calls started in one behaviour of the MultiTimings specification.
MaxOpsMT == 2

Threads == 1..NumThreads

\* ----------------------------------------------------------------- strings

\* The sentinel a combined label is replaced by.
StatsAllStr == <<"a", "l", "l">>

\* The key of the synthetic entry of Counts().
All == <<"A", "l", "l">>

\* The separator of compound category names.
Sep == "."

\* Category names callers pass to Timings.Add / Timings.Record.
CategoryNames == {<<"a">>, All}

\* Values callers pass for one dimension of a MultiTimings; none holds the
\* separator.
DimValues == {<<"a">>, <<"b">>}

\* The dimension names a MultiTimings is constructed from.
LabelLists == {<< <<"x">> >>, << <<"x">>, <<"y">> >>}

\* The value lists callers pass to MultiTimings.Add / Record: of the declared
\* length, shorter and longer.
NameLists == UNION {[1..n -> DimValues] : n \in 1..3}

\* Elapsed times callers pass, in nanoseconds (time.Duration).
Durations == {1500000, 2000000}

\* The registry name (unnamed, or published as "q") and whether a timer hook
\* is installed.
HookConfigs ==
    {[name |-> <<"q">>, timerHook |-> TRUE],
     [name |-> <<"q">>, timerHook |-> FALSE],
     [name |-> <<>>, timerHook |-> TRUE]}

\* --------------------------------------------------------------- variables

VARIABLES
    totalCount,      \* Timings.totalCount (atomic.Int64)
    totalTime,       \* Timings.totalTime (atomic.Int64)
    mu,              \* Timings.mu: [r: set of threads holding it shared,
                     \*              w: the thread that called Lock, or 0]
    histograms,      \* Timings.histograms: the identifier of a map object
    name,            \* Timings.name
    labelCombined,   \* Timings.labelCombined
    labels,          \* MultiTimings.labels
    combinedLabels,  \* MultiTimings.combinedLabels
    timerHook,       \* defaultStatsdHook.timerHook != nil
    maps,            \* heap of map[string]*Histogram objects
    hists,           \* heap of Histogram objects
    pc,              \* per thread: the statement it executes next
    loc,             \* per thread: the locals of the call in flight
    ret,             \* per thread: what its last call returned
    hookCalls,       \* per thread: the hook invocations of its call in flight
    g                \* history: calls started, Adds issued, Resets, the
                     \* total count when the map was last replaced, ...

vars == <<totalCount, totalTime, mu, histograms, name, labelCombined, labels,
          combinedLabels, timerHook, maps, hists, pc, loc, ret, hookCalls, g>>

\* The fields fixed by the constructors.
config == <<name, labelCombined, labels, combinedLabels, timerHook>>

\* ----------------------------------------------------------------- helpers

\* f with key k bound to v (a Go map assignment m[k] = v).
MapSet(f, k, v) == [x \in DOMAIN f \cup {k} |-> IF x = k THEN v ELSE f[x]]

\* f without key k (a Go delete(m, k)).
MapDelete(f, k) == [x \in DOMAIN f \ {k} |-> f[x]]

\* The empty map (make(map[string]*Histogram)).
EmptyMap == [x \in {} |-> 0]

\* A counter read with default 0.
Get(f, k) == IF k \in DOMAIN f THEN f[k] ELSE 0

RECURSIVE SumOver(_, _)
\* The sum of f over the keys in S.
SumOver(f, S) ==
    IF S = {} THEN 0
    ELSE LET k == CHOOSE x \in S : TRUE IN f[k] + SumOver(f, S \ {k})

\* The identifier the allocator gives the next object of heap h: the least
\* one no live object has.
Fresh(h) ==
    CHOOSE i \in 1..(Cardinality(DOMAIN h) + 1) :
        /\ i \notin DOMAIN h
        /\ \A j \in 1..(i - 1) : j \in DOMAIN h

\* The map objects still referenced: the registry's own and the ones callers
\* still hold from Histograms().
LiveMaps(h, r) == {h} \cup {r[u].h : u \in {v \in DOMAIN r : r[v].op = "Histograms"}}

\* Heap m of maps without the unreferenced ones (garbage collection).
GcMaps(m, h, r) == [i \in DOMAIN m \cap LiveMaps(h, r) |-> m[i]]

\* The Histograms still referenced from a live map or from a call in flight.
LiveHists(m, l) ==
    UNION {{m[i][k] : k \in DOMAIN m[i]} : i \in DOMAIN m}
        \cup {l[u].hist : u \in DOMAIN l}
        \cup UNION {{l[u].todo[k] : k \in DOMAIN l[u].todo} : u \in DOMAIN l}

\* Heap hs of Histograms without the unreferenced ones.
GcHists(hs, m, l) == [i \in DOMAIN hs \cap LiveHists(m, l) |-> hs[i]]

\* ---------------------------------------------------------------- Histogram

\* NewGenericHistogram: a Histogram with no observation.
NewGenericHistogram == [count |-> 0, total |-> 0]

\* Histogram.Add(value): one more observation, atomically.
HistogramAdd(h, value) == [count |-> h.count + 1, total |-> h.total + value]

\* Histogram.Count().
HistogramCount(h) == h.count

\* --------------------------------------------------------------- RWMutex

MuFree == [r |-> {}, w |-> 0]

\* RLock returns only while no writer holds or has announced itself.
CanRLock == mu.w = 0

\* Lock first announces the writer (blocking later readers) ...
CanAnnounce == mu.w = 0

\* ... and returns once the readers have drained.
CanLock(t) == mu.w = t /\ mu.r = {}

\* ------------------------------------------------------------ constructors

\* IsDimensionCombined(label) under the configured set of combined dimensions.
IsDimensionCombined(label, combineDimensions) == label \in combineDimensions

\* NewTimings ignoring the categories it is given.
NewTimingsMapWithoutCategories(categories) == EmptyMap

RECURSIVE NewTimingsMap(_)
\* The loop of NewTimings over the categories: category -> fresh histogram id.
NewTimingsMap(categories) ==
    IF categories = <<>> THEN EmptyMap
    ELSE LET n == Len(categories)
             front == NewTimingsMap(SubSeq(categories, 1, n - 1))
         IN  MapSet(front, categories[n], n)

\* The thread locals of a thread that is in no call.
NoLoc ==
    [name |-> <<>>, elapsed |-> 0, hist |-> 0, ok |-> FALSE, ops0 |-> 0,
     todo |-> EmptyMap, counts |-> EmptyMap, names |-> <<>>, count0 |-> 0,
     time0 |-> 0]

\* The return slot of a thread that has returned nothing yet.
NoRet == [op |-> "none"]

\* The history of a registry just constructed.
NoHistory ==
    [ops |-> 0, adds |-> EmptyMap, time |-> 0, resets |-> 0,
     created |-> EmptyMap, panics |-> 0, supplied |-> <<>>, ctor |-> {},
     base |-> 0]

\* ------------------------------------------------------------ Timings.Add

\* Resolve without the collapse: the category is used as given.
ResolveAsGiven(n) == n

\* Lines 73-75: a combined label collapses every category onto the sentinel.
Resolve(n) == IF labelCombined THEN StatsAllStr ELSE n

\* A call of thread t starts: what its previous call returned is dropped,
\* and its return slot becomes r.
Begin(t, r) ==
    /\ pc[t] = "idle"
    /\ ret' = [ret EXCEPT ![t] = r]
    /\ hookCalls' = [hookCalls EXCEPT ![t] = <<>>]
    /\ maps' = GcMaps(maps, histograms, ret')
    /\ hists' = GcHists(hists, maps', loc)

\* g.ops when thread t starts a call while no other call is in flight, else
\* -1: the call ran alone if g.ops still has that value when it returns.
Alone(t) == IF \A u \in Threads \ {t} : pc[u] = "idle" THEN g.ops + 1 ELSE -1

\* The call t.Add(n, elapsed) starts: lines 72-75.
BeginAdd(t, n, elapsed) ==
    /\ Begin(t, NoRet)
    /\ pc' = [pc EXCEPT ![t] = "Add_RLock"]
    /\ loc' = [loc EXCEPT ![t] = [NoLoc EXCEPT !.name = Resolve(n),
                                               !.elapsed = elapsed]]
    /\ g' = [g EXCEPT !.ops = @ + 1,
                      !.adds = MapSet(@, Resolve(n), Get(@, Resolve(n)) + 1),
                      !.time = @ + elapsed]
    /\ UNCHANGED <<totalCount, totalTime, mu, histograms, config>>

\* Timings.Add(name, elapsed), called directly.
Add(t, n, elapsed) ==
    /\ g.ops < MaxOps
    /\ BeginAdd(t, n, elapsed)

\* Line 77: t.mu.RLock().
Add_RLock(t) ==
    /\ pc[t] = "Add_RLock"
    /\ CanRLock
    /\ mu' = [mu EXCEPT !.r = @ \cup {t}]
    /\ pc' = [pc EXCEPT ![t] = "Add_Lookup"]
    /\ UNCHANGED <<totalCount, totalTime, histograms, config, maps, hists,
                   loc, ret, hookCalls, g>>

\* Line 78: hist, ok := t.histograms[name].
Add_Lookup(t) ==
    /\ pc[t] = "Add_Lookup"
    /\ LET m == maps[histograms]
           ok == loc[t].name \in DOMAIN m
       IN  loc' = [loc EXCEPT ![t].ok = ok,
                              ![t].hist = IF ok THEN m[loc[t].name] ELSE 0]
    /\ pc' = [pc EXCEPT ![t] = "Add_RUnlock"]
    /\ UNCHANGED <<totalCount, totalTime, mu, histograms, config, maps, hists,
                   ret, hookCalls, g>>

\* Add without the branch of line 82: the exclusive lock is taken whether or
\* not the first lookup found the category.
Add_RUnlockThenLock(t) ==
    /\ pc[t] = "Add_RUnlock"
    /\ mu' = [mu EXCEPT !.r = @ \ {t}]
    /\ pc' = [pc EXCEPT ![t] = "Add_Lock"]
    /\ UNCHANGED <<totalCount, totalTime, histograms, config, maps, hists,
                   loc, ret, hookCalls, g>>

\* Lines 79 and 82: t.mu.RUnlock(), then the branch on ok.
Add_RUnlock(t) ==
    /\ pc[t] = "Add_RUnlock"
    /\ mu' = [mu EXCEPT !.r = @ \ {t}]
    /\ pc' = [pc EXCEPT ![t] = IF loc[t].ok THEN "Add_Hook" ELSE "Add_Lock"]
    /\ UNCHANGED <<totalCount, totalTime, histograms, config, maps, hists,
                   loc, ret, hookCalls, g>>

\* Line 83: t.mu.Lock() announces the writer ...
Add_Lock(t) ==
    /\ pc[t] = "Add_Lock"
    /\ CanAnnounce
    /\ mu' = [mu EXCEPT !.w = t]
    /\ pc' = [pc EXCEPT ![t] = "Add_LockWait"]
    /\ UNCHANGED <<totalCount, totalTime, histograms, config, maps, hists,
                   loc, ret, hookCalls, g>>

\* ... and returns once no reader is left.
Add_LockWait(t) ==
    /\ pc[t] = "Add_LockWait"
    /\ CanLock(t)
    /\ pc' = [pc EXCEPT ![t] = "Add_Insert"]
    /\ UNCHANGED <<totalCount, totalTime, mu, histograms, config, maps, hists,
                   loc, ret, hookCalls, g>>

\* The double check left out: the second lookup never finds the category.
FoundNever(m, n) == FALSE

\* Line 85: the second lookup found the category (the double check).
Found(m, n) == n \in DOMAIN m

\* Lines 84-88: look up again and, on a miss, create and insert a Histogram.
Add_Insert(t) ==
    /\ pc[t] = "Add_Insert"
    /\ LET m == maps[histograms]
           n == loc[t].name
       IN  IF Found(m, n)
           THEN /\ loc' = [loc EXCEPT ![t].ok = TRUE, ![t].hist = m[n]]
                /\ UNCHANGED <<maps, hists, g>>
           ELSE LET h == Fresh(hists)
                IN  /\ hists' = MapSet(hists, h, NewGenericHistogram)
                    /\ maps' = [maps EXCEPT ![histograms] = MapSet(m, n, h)]
                    /\ loc' = [loc EXCEPT ![t].hist = h]
                    /\ g' = [g EXCEPT !.created = MapSet(@, n, Get(@, n) + 1)]
    /\ pc' = [pc EXCEPT ![t] = "Add_Unlock"]
    /\ UNCHANGED <<totalCount, totalTime, mu, histograms, config, ret,
                   hookCalls>>

\* Add going on to the hook without the Unlock of line 89.
Add_UnlockMissing(t) ==
    /\ pc[t] = "Add_Unlock"
    /\ pc' = [pc EXCEPT ![t] = "Add_Hook"]
    /\ UNCHANGED <<totalCount, totalTime, mu, histograms, config, maps, hists,
                   loc, ret, hookCalls, g>>

\* Line 89: t.mu.Unlock().
Add_Unlock(t) ==
    /\ pc[t] = "Add_Unlock"
    /\ mu' = [mu EXCEPT !.w = 0]
    /\ pc' = [pc EXCEPT ![t] = "Add_Hook"]
    /\ UNCHANGED <<totalCount, totalTime, histograms, config, maps, hists,
                   loc, ret, hookCalls, g>>

\* elapsed.Milliseconds(): whole milliseconds of a duration in nanoseconds.
Milliseconds(elapsed) == elapsed \div 1000000

\* The hook called whenever it is set, whatever the registry's name.
HookIfSet == timerHook

\* Line 91: the hook is called when it is set and the registry is named.
HookEnabled == timerHook /\ name # <<>>

\* Lines 91-93: the timer hook, called with (t.name, name, ms, t).  The hook
\* reads Count() and the category's Histogram from the registry it is given
\* and then either returns or goes on to call Counts() on that registry.
Add_Hook(t) ==
    /\ pc[t] = "Add_Hook"
    /\ IF HookEnabled
       THEN /\ hookCalls' =
                 [hookCalls EXCEPT ![t] =
                    Append(@, [name |-> name, category |-> loc[t].name,
                               ms |-> Milliseconds(loc[t].elapsed),
                               count |-> totalCount,
                               histCount |-> HistogramCount(hists[loc[t].hist])])]
            /\ \E calls \in BOOLEAN :
                  pc' = [pc EXCEPT ![t] = IF calls THEN "Add_HookRLock"
                                                   ELSE "Add_Hist"]
       ELSE /\ hookCalls' = hookCalls
            /\ pc' = [pc EXCEPT ![t] = "Add_Hist"]
    /\ UNCHANGED <<totalCount, totalTime, mu, histograms, config, maps, hists,
                   loc, ret, g>>

\* Inside the hook, the t.mu.RLock() of the Counts() it calls (line 155).
Add_HookRLock(t) ==
    /\ pc[t] = "Add_HookRLock"
    /\ CanRLock
    /\ mu' = [mu EXCEPT !.r = @ \cup {t}]
    /\ pc' = [pc EXCEPT ![t] = "Add_HookRUnlock"]
    /\ UNCHANGED <<totalCount, totalTime, histograms, config, maps, hists,
                   loc, ret, hookCalls, g>>

\* Inside the hook, the deferred t.mu.RUnlock() of that Counts() (lines 156
\* and 163); the hook drops what Counts() returned and returns to line 95.
Add_HookRUnlock(t) ==
    /\ pc[t] = "Add_HookRUnlock"
    /\ mu' = [mu EXCEPT !.r = @ \ {t}]
    /\ pc' = [pc EXCEPT ![t] = "Add_Hist"]
    /\ UNCHANGED <<totalCount, totalTime, histograms, config, maps, hists,
                   loc, ret, hookCalls, g>>

\* Lines 95-96: hist.Add(elapsedNs).
Add_Hist(t) ==
    /\ pc[t] = "Add_Hist"
    /\ hists' = [hists EXCEPT ![loc[t].hist] = HistogramAdd(@, loc[t].elapsed)]
    /\ pc' = [pc EXCEPT ![t] = "Add_Count"]
    /\ UNCHANGED <<totalCount, totalTime, mu, histograms, config, maps, loc,
                   ret, hookCalls, g>>

\* Line 97 adding the elapsed time instead of 1.
Add_CountElapsed(t) ==
    /\ pc[t] = "Add_Count"
    /\ totalCount' = totalCount + loc[t].elapsed
    /\ pc' = [pc EXCEPT ![t] = "Add_Time"]
    /\ UNCHANGED <<totalTime, mu, histograms, config, maps, hists, loc, ret,
                   hookCalls, g>>

\* Line 97: t.totalCount.Add(1).
Add_Count(t) ==
    /\ pc[t] = "Add_Count"
    /\ totalCount' = totalCount + 1
    /\ pc' = [pc EXCEPT ![t] = "Add_Time"]
    /\ UNCHANGED <<totalTime, mu, histograms, config, maps, hists, loc, ret,
                   hookCalls, g>>

\* Line 98 adding the elapsed time in milliseconds instead of nanoseconds.
Add_TimeInMilliseconds(t) ==
    /\ pc[t] = "Add_Time"
    /\ totalTime' = totalTime + Milliseconds(loc[t].elapsed)
    /\ pc' = [pc EXCEPT ![t] = "idle"]
    /\ loc' = [loc EXCEPT ![t] = NoLoc]
    /\ ret' = [ret EXCEPT ![t] = [op |-> "Add"]]
    /\ hists' = GcHists(hists, maps, loc')
    /\ UNCHANGED <<totalCount, mu, histograms, config, maps, hookCalls, g>>

\* Line 98: t.totalTime.Add(elapsedNs), and the call returns.
Add_Time(t) ==
    /\ pc[t] = "Add_Time"
    /\ totalTime' = totalTime + loc[t].elapsed
    /\ pc' = [pc EXCEPT ![t] = "idle"]
    /\ loc' = [loc EXCEPT ![t] = NoLoc]
    /\ ret' = [ret EXCEPT ![t] = [op |-> "Add"]]
    /\ hists' = GcHists(hists, maps, loc')
    /\ UNCHANGED <<totalCount, mu, histograms, config, maps, hookCalls, g>>

\* The steps of a Timings.Add in flight.
AddStep(t) ==
    \/ Add_RLock(t)
    \/ Add_Lookup(t)
    \/ Add_RUnlock(t)
    \/ Add_Lock(t)
    \/ Add_LockWait(t)
    \/ Add_Insert(t)
    \/ Add_Unlock(t)
    \/ Add_Hook(t)
    \/ Add_HookRLock(t)
    \/ Add_HookRUnlock(t)
    \/ Add_Hist(t)
    \/ Add_Count(t)
    \/ Add_Time(t)

\* --------------------------------------------------------- Timings.Record

\* Timings.Record(name, startTime), lines 103-108; elapsed is
\* time.Since(startTime), whatever the clock says.
Record(t, n, elapsed) ==
    /\ g.ops < MaxOps
    /\ BeginAdd(t, Resolve(n), elapsed)

\* ---------------------------------------------------------- Timings.Reset

\* Reset() starts.
Reset(t) ==
    /\ g.ops < MaxOps
    /\ Begin(t, NoRet)
    /\ pc' = [pc EXCEPT ![t] = "Reset_RLock"]
    /\ loc' = [loc EXCEPT ![t] = [NoLoc EXCEPT !.ops0 = Alone(t),
                                               !.count0 = totalCount,
                                               !.time0 = totalTime]]
    /\ g' = [g EXCEPT !.ops = @ + 1, !.resets = @ + 1]
    /\ UNCHANGED <<totalCount, totalTime, mu, histograms, config>>

\* Line 66: t.mu.RLock().
Reset_RLock(t) ==
    /\ pc[t] = "Reset_RLock"
    /\ CanRLock
    /\ mu' = [mu EXCEPT !.r = @ \cup {t}]
    /\ pc' = [pc EXCEPT ![t] = "Reset_Write"]
    /\ UNCHANGED <<totalCount, totalTime, histograms, config, maps, hists,
                   loc, ret, hookCalls, g>>

\* Reset clearing the totals as well as the map.
Reset_WriteAndZero(t) ==
    /\ pc[t] = "Reset_Write"
    /\ LET m == Fresh(maps)
       IN  /\ histograms' = m
           /\ maps' = GcMaps(MapSet(maps, m, EmptyMap), m, ret)
    /\ hists' = GcHists(hists, maps', loc)
    /\ totalCount' = 0
    /\ totalTime' = 0
    /\ pc' = [pc EXCEPT ![t] = "Reset_RUnlock"]
    /\ g' = [g EXCEPT !.base = 0]
    /\ UNCHANGED <<mu, config, loc, ret, hookCalls>>

\* Line 67: t.histograms = make(map[string]*Histogram).
Reset_Write(t) ==
    /\ pc[t] = "Reset_Write"
    /\ LET m == Fresh(maps)
       IN  /\ histograms' = m
           /\ maps' = GcMaps(MapSet(maps, m, EmptyMap), m, ret)
    /\ hists' = GcHists(hists, maps', loc)
    /\ pc' = [pc EXCEPT ![t] = "Reset_RUnlock"]
    /\ g' = [g EXCEPT !.base = totalCount]
    /\ UNCHANGED <<totalCount, totalTime, mu, config, loc, ret, hookCalls>>

\* Line 68: t.mu.RUnlock(), and the call returns.
Reset_RUnlock(t) ==
    /\ pc[t] = "Reset_RUnlock"
    /\ mu' = [mu EXCEPT !.r = @ \ {t}]
    /\ pc' = [pc EXCEPT ![t] = "idle"]
    /\ ret' = [ret EXCEPT ![t] = [op |-> "Reset", ops0 |-> loc[t].ops0,
                                  count0 |-> loc[t].count0,
                                  time0 |-> loc[t].time0]]
    /\ loc' = [loc EXCEPT ![t] = NoLoc]
    /\ UNCHANGED <<totalCount, totalTime, histograms, config, maps, hists,
                   hookCalls, g>>

ResetStep(t) ==
    \/ Reset_RLock(t)
    \/ Reset_Write(t)
    \/ Reset_RUnlock(t)

\* --------------------------------------------------------- Timings.String

\* String() starts.
String(t) ==
    /\ g.ops < MaxOps
    /\ Begin(t, NoRet)
    /\ pc' = [pc EXCEPT ![t] = "String_RLock"]
    /\ loc' = [loc EXCEPT ![t] = NoLoc]
    /\ g' = [g EXCEPT !.ops = @ + 1]
    /\ UNCHANGED <<totalCount, totalTime, mu, histograms, config>>

\* Line 112: t.mu.RLock().
String_RLock(t) ==
    /\ pc[t] = "String_RLock"
    /\ CanRLock
    /\ mu' = [mu EXCEPT !.r = @ \cup {t}]
    /\ pc' = [pc EXCEPT ![t] = "String_Count"]
    /\ UNCHANGED <<totalCount, totalTime, histograms, config, maps, hists,
                   loc, ret, hookCalls, g>>

\* Line 120: t.totalCount.Load().
String_Count(t) ==
    /\ pc[t] = "String_Count"
    /\ loc' = [loc EXCEPT ![t].count0 = totalCount]
    /\ pc' = [pc EXCEPT ![t] = "String_Time"]
    /\ UNCHANGED <<totalCount, totalTime, mu, histograms, config, maps, hists,
                   ret, hookCalls, g>>

\* Line 121: t.totalTime.Load().
String_Time(t) ==
    /\ pc[t] = "String_Time"
    /\ loc' = [loc EXCEPT ![t].time0 = totalTime]
    /\ pc' = [pc EXCEPT ![t] = "String_Field"]
    /\ UNCHANGED <<totalCount, totalTime, mu, histograms, config, maps, hists,
                   ret, hookCalls, g>>

\* Line 122: the field t.histograms is read into the struct.  The map it
\* names gets no new entry while the shared lock is held, so its entries are
\* kept in place of the reference.
String_Field(t) ==
    /\ pc[t] = "String_Field"
    /\ loc' = [loc EXCEPT ![t].todo = maps[histograms]]
    /\ pc' = [pc EXCEPT ![t] = "String_Marshal"]
    /\ UNCHANGED <<totalCount, totalTime, mu, histograms, config, maps, hists,
                   ret, hookCalls, g>>

\* Lines 125-129: json.Marshal(tm) reads every Histogram of the map; the
\* document is kept as the record it encodes.  (Marshal does not fail on
\* these types; lines 126-128 are not reached.)
String_Marshal(t) ==
    /\ pc[t] = "String_Marshal"
    /\ ret' = [ret EXCEPT ![t] =
                 [op |-> "String",
                  TotalCount |-> loc[t].count0,
                  TotalTime |-> loc[t].time0,
                  Histograms |-> [k \in DOMAIN loc[t].todo |->
                                     hists[loc[t].todo[k]]]]]
    /\ loc' = [loc EXCEPT ![t] = NoLoc]
    /\ hists' = GcHists(hists, maps, loc')
    /\ pc' = [pc EXCEPT ![t] = "String_RUnlock"]
    /\ UNCHANGED <<totalCount, totalTime, mu, histograms, config, maps,
                   hookCalls, g>>

\* Line 113: the deferred t.mu.RUnlock(), and the call returns the document.
String_RUnlock(t) ==
    /\ pc[t] = "String_RUnlock"
    /\ mu' = [mu EXCEPT !.r = @ \ {t}]
    /\ pc' = [pc EXCEPT ![t] = "idle"]
    /\ UNCHANGED <<totalCount, totalTime, histograms, config, maps, hists,
                   loc, ret, hookCalls, g>>

StringStep(t) ==
    \/ String_RLock(t)
    \/ String_Count(t)
    \/ String_Time(t)
    \/ String_Field(t)
    \/ String_Marshal(t)
    \/ String_RUnlock(t)

\* ----------------------------------------------------- Timings.Histograms

\* Histograms() starts.
Histograms(t) ==
    /\ g.ops < MaxOps
    /\ Begin(t, NoRet)
    /\ pc' = [pc EXCEPT ![t] = "Histograms_RLock"]
    /\ loc' = [loc EXCEPT ![t] = NoLoc]
    /\ g' = [g EXCEPT !.ops = @ + 1]
    /\ UNCHANGED <<totalCount, totalTime, mu, histograms, config>>

\* Line 134: t.mu.RLock().
Histograms_RLock(t) ==
    /\ pc[t] = "Histograms_RLock"
    /\ CanRLock
    /\ mu' = [mu EXCEPT !.r = @ \cup {t}]
    /\ pc' = [pc EXCEPT ![t] = "Histograms_Copy"]
    /\ UNCHANGED <<totalCount, totalTime, histograms, config, maps, hists,
                   loc, ret, hookCalls, g>>

\* Histograms() handing out the registry's own map instead of a copy.
HistogramsAlias(m, h) == [heap |-> m, h |-> h]

\* Lines 136-139: the heap after h = make(...) and the copying loop, and the
\* identifier of h.
HistogramsCopy(m, h) == [heap |-> MapSet(m, Fresh(m), m[h]), h |-> Fresh(m)]

\* Lines 136-139.  The loop runs under the shared lock, which excludes every
\* insertion, and a Reset replaces the field, not the map being ranged over:
\* no step of another thread can fall inside the loop and be told apart.
Histograms_Copy(t) ==
    /\ pc[t] = "Histograms_Copy"
    /\ LET c == HistogramsCopy(maps, histograms)
       IN  /\ maps' = c.heap
           /\ ret' = [ret EXCEPT ![t] = [op |-> "Histograms", h |-> c.h]]
    /\ pc' = [pc EXCEPT ![t] = "Histograms_RUnlock"]
    /\ UNCHANGED <<totalCount, totalTime, mu, histograms, config, hists, loc,
                   hookCalls, g>>

\* Lines 135 and 140: the deferred t.mu.RUnlock(), and the call returns h.
Histograms_RUnlock(t) ==
    /\ pc[t] = "Histograms_RUnlock"
    /\ mu' = [mu EXCEPT !.r = @ \ {t}]
    /\ pc' = [pc EXCEPT ![t] = "idle"]
    /\ UNCHANGED <<totalCount, totalTime, histograms, config, maps, hists,
                   loc, ret, hookCalls, g>>

HistogramsStep(t) ==
    \/ Histograms_RLock(t)
    \/ Histograms_Copy(t)
    \/ Histograms_RUnlock(t)

\* The caller holding the map Histograms() returned assigns h[k] = v.
CallerAssign(t, k, v) ==
    /\ pc[t] = "idle"
    /\ g.ops < MaxOps
    /\ ret[t].op = "Histograms"
    /\ v \in DOMAIN hists
    /\ maps' = [maps EXCEPT ![ret[t].h] = MapSet(@, k, v)]
    /\ g' = [g EXCEPT !.ops = @ + 1]
    /\ UNCHANGED <<totalCount, totalTime, mu, histograms, config, hists, pc,
                   loc, ret, hookCalls>>

\* The caller holding the map Histograms() returned calls delete(h, k).
CallerDelete(t, k) ==
    /\ pc[t] = "idle"
    /\ g.ops < MaxOps
    /\ ret[t].op = "Histograms"
    /\ k \in DOMAIN maps[ret[t].h]
    /\ maps' = [maps EXCEPT ![ret[t].h] = MapDelete(@, k)]
    /\ hists' = GcHists(hists, maps', loc)
    /\ g' = [g EXCEPT !.ops = @ + 1]
    /\ UNCHANGED <<totalCount, totalTime, mu, histograms, config, pc, loc,
                   ret, hookCalls>>

\* --------------------------------------------------------- Timings.Counts

\* Counts() starts.
Counts(t) ==
    /\ g.ops < MaxOps
    /\ Begin(t, NoRet)
    /\ pc' = [pc EXCEPT ![t] = "Counts_RLock"]
    /\ loc' = [loc EXCEPT ![t] = [NoLoc EXCEPT !.ops0 = Alone(t)]]
    /\ g' = [g EXCEPT !.ops = @ + 1]
    /\ UNCHANGED <<totalCount, totalTime, mu, histograms, config>>

\* Line 155: t.mu.RLock().
Counts_RLock(t) ==
    /\ pc[t] = "Counts_RLock"
    /\ CanRLock
    /\ mu' = [mu EXCEPT !.r = @ \cup {t}]
    /\ pc' = [pc EXCEPT ![t] = "Counts_Range"]
    /\ UNCHANGED <<totalCount, totalTime, histograms, config, maps, hists,
                   loc, ret, hookCalls, g>>

\* Lines 158-159: counts is made and the range expression t.histograms is
\* evaluated, once: the loop walks the map the field names now.
Counts_Range(t) ==
    /\ pc[t] = "Counts_Range"
    /\ loc' = [loc EXCEPT ![t].todo = maps[histograms], ![t].counts = EmptyMap]
    /\ pc' = [pc EXCEPT ![t] = "Counts_Iter"]
    /\ UNCHANGED <<totalCount, totalTime, mu, histograms, config, maps, hists,
                   ret, hookCalls, g>>

\* Line 160: counts[k] = v.Count(), for one more entry, in any order.
Counts_Iter(t) ==
    /\ pc[t] = "Counts_Iter"
    /\ \E k \in DOMAIN loc[t].todo :
          loc' = [loc EXCEPT
                    ![t].counts = MapSet(@, k, HistogramCount(hists[loc[t].todo[k]])),
                    ![t].todo = MapDelete(@, k)]
    /\ hists' = GcHists(hists, maps, loc')
    /\ UNCHANGED <<totalCount, totalTime, mu, histograms, config, maps, pc,
                   ret, hookCalls, g>>

\* Line 162, after the loop: counts["All"] = t.totalCount.Load().
CountsAll(counts, total) == MapSet(counts, All, total)

Counts_All(t) ==
    /\ pc[t] = "Counts_Iter"
    /\ DOMAIN loc[t].todo = {}
    /\ loc' = [loc EXCEPT ![t].counts = CountsAll(@, totalCount)]
    /\ pc' = [pc EXCEPT ![t] = "Counts_RUnlock"]
    /\ UNCHANGED <<totalCount, totalTime, mu, histograms, config, maps, hists,
                   ret, hookCalls, g>>

\* Lines 156 and 163: the deferred t.mu.RUnlock(), and the call returns counts.
Counts_RUnlock(t) ==
    /\ pc[t] = "Counts_RUnlock"
    /\ mu' = [mu EXCEPT !.r = @ \ {t}]
    /\ pc' = [pc EXCEPT ![t] = "idle"]
    /\ ret' = [ret EXCEPT ![t] = [op |-> "Counts", counts |-> loc[t].counts,
                                  ops0 |-> loc[t].ops0]]
    /\ loc' = [loc EXCEPT ![t] = NoLoc]
    /\ UNCHANGED <<totalCount, totalTime, histograms, config, maps, hists,
                   hookCalls, g>>

CountsStep(t) ==
    \/ Counts_RLock(t)
    \/ Counts_Range(t)
    \/ Counts_Iter(t)
    \/ Counts_All(t)
    \/ Counts_RUnlock(t)

\* --------------------------------------------------- Timings.Count / Time

\* Count(), lines 144-146: one atomic load.
Count(t) ==
    /\ g.ops < MaxOps
    /\ Begin(t, [op |-> "Count", value |-> totalCount])
    /\ g' = [g EXCEPT !.ops = @ + 1]
    /\ UNCHANGED <<totalCount, totalTime, mu, histograms, config, pc, loc>>

\* Time(), lines 149-151: one atomic load.
Time(t) ==
    /\ g.ops < MaxOps
    /\ Begin(t, [op |-> "Time", value |-> totalTime])
    /\ g' = [g EXCEPT !.ops = @ + 1]
    /\ UNCHANGED <<totalCount, totalTime, mu, histograms, config, pc, loc>>

\* ------------------------------------------------------------ MultiTimings

RECURSIVE safeJoinLabels(_, _)
\* safeJoinLabels(labels, combinedLabels): each value of a combined dimension
\* is replaced by the sentinel, and the values are joined by the separator.
safeJoinLabels(names, combined) ==
    IF names = <<>> THEN <<>>
    ELSE LET n == Len(names)
             last == IF combined[n] THEN StatsAllStr ELSE names[n]
         IN  IF n = 1 THEN last
             ELSE safeJoinLabels(SubSeq(names, 1, n - 1), combined)
                      \o <<Sep>> \o last

\* The arity check catching only value lists that are too long.
WrongArityIfLonger(names) == Len(names) > Len(labels)

\* Lines 233 and 242: len(names) != len(mt.labels).
WrongArity(names) == Len(names) # Len(labels)

\* The key joined without the combined flags (safeJoinLabels(names, nil)).
CompoundKeyUncombined(names) ==
    safeJoinLabels(names, [i \in DOMAIN names |-> FALSE])

\* The key joined from the first value alone.
CompoundKeyOfFirst(names) == safeJoinLabels(SubSeq(names, 1, 1), combinedLabels)

\* Lines 236 and 245: safeJoinLabels(names, mt.combinedLabels).
CompoundKey(names) == safeJoinLabels(names, combinedLabels)

\* The values supplied so far, per dimension, with those of names added.
Supplied(sup, names) ==
    [i \in DOMAIN sup |->
        IF i \in DOMAIN names THEN sup[i] \cup {names[i]} ELSE sup[i]]

\* The panic of lines 234 and 243: the call is abandoned where it stands (the
\* caller is taken to recover, so that the registry can be looked at after).
Panic(t) ==
    /\ Begin(t, [op |-> "panic"])
    /\ g' = [g EXCEPT !.ops = @ + 1, !.panics = @ + 1]
    /\ UNCHANGED <<totalCount, totalTime, mu, histograms, config, pc, loc>>

\* The embedded Timings' call starts; the value list stays a local of the
\* MultiTimings call.
Delegate(t, names, n, elapsed) ==
    /\ Begin(t, NoRet)
    /\ pc' = [pc EXCEPT ![t] = "Add_RLock"]
    /\ loc' = [loc EXCEPT ![t] = [NoLoc EXCEPT !.name = n,
                                               !.elapsed = elapsed,
                                               !.names = names]]
    /\ g' = [g EXCEPT !.ops = @ + 1,
                      !.adds = MapSet(@, n, Get(@, n) + 1),
                      !.time = @ + elapsed,
                      !.supplied = Supplied(@, names)]
    /\ UNCHANGED <<totalCount, totalTime, mu, histograms, config>>

\* MultiTimings.Add(names, elapsed), lines 232-237.
MultiTimingsAdd(t, names, elapsed) ==
    /\ g.ops < MaxOpsMT
    /\ IF WrongArity(names)
       THEN Panic(t)
       ELSE Delegate(t, names, Resolve(CompoundKey(names)), elapsed)

\* MultiTimings.Record(names, startTime), lines 241-246, through
\* Timings.Record, lines 103-108.
MultiTimingsRecord(t, names, elapsed) ==
    /\ g.ops < MaxOpsMT
    /\ IF WrongArity(names)
       THEN Panic(t)
       ELSE Delegate(t, names, Resolve(Resolve(CompoundKey(names))), elapsed)

\* ---------------------------------------------------------- specification

\* Constructor arguments of the Timings under test.
CtorCategories == {<<>>, << <<"a">> >>}

\* NewTimings(name, help, label, categories...): lines 46-62.
NewTimings(n, label, categories, combineDimensions) ==
    /\ totalCount = 0
    /\ totalTime = 0
    /\ mu = MuFree
    /\ histograms = 1
    /\ maps = (1 :> NewTimingsMap(categories))
    /\ hists = [h \in 1..Len(categories) |-> NewGenericHistogram]
    /\ name = n
    /\ labelCombined = IsDimensionCombined(label, combineDimensions)
    /\ labels = <<>>
    /\ combinedLabels = <<>>

Init ==
    /\ \E c \in HookConfigs, categories \in CtorCategories,
          combineDimensions \in SUBSET {<<"o", "p">>} :
          /\ NewTimings(c.name, <<"o", "p">>, categories, combineDimensions)
          /\ timerHook = c.timerHook
          /\ g = [NoHistory EXCEPT
                    !.ctor = {categories[i] : i \in 1..Len(categories)}]
    /\ pc = [t \in Threads |-> "idle"]
    /\ loc = [t \in Threads |-> NoLoc]
    /\ ret = [t \in Threads |-> NoRet]
    /\ hookCalls = [t \in Threads |-> <<>>]


Next ==
    \E t \in Threads :
        \/ \E n \in CategoryNames, elapsed \in Durations : Add(t, n, elapsed)
        \/ \E n \in CategoryNames, elapsed \in Durations : Record(t, n, elapsed)
        \/ AddStep(t)
        \/ Reset(t)
        \/ ResetStep(t)
        \/ Histograms(t)
        \/ HistogramsStep(t)
        \/ \E k \in CategoryNames, v \in 1..MaxOps : CallerAssign(t, k, v)
        \/ \E k \in CategoryNames : CallerDelete(t, k)
        \/ Counts(t)
        \/ CountsStep(t)
        \/ Count(t)
        \/ Time(t)
        \/ String(t)
        \/ StringStep(t)

Spec == Init /\ [][Next]_vars

\* The steps of thread t inside a call: everything but the start of a call,
\* which is up to the caller.
Step(t) ==
    \/ AddStep(t)
    \/ ResetStep(t)
    \/ HistogramsStep(t)
    \/ CountsStep(t)
    \/ StringStep(t)

\* The registries that have a name and a timer hook: their behaviours include,
\* for hooks that return at once, those of the registries without a hook.
InitFair == Init /\ timerHook /\ name # <<>>

\* Fair scheduling: a thread inside a call whose next statement can run (the
\* lock it asks for can be granted) is not left waiting forever.
SpecFair ==
    InitFair /\ [][Next]_vars /\ \A t \in Threads : WF_vars(Step(t))

\* NewMultiTimings(name, help, labels): lines 204-224.  The embedded Timings
\* is built without labelCombined, which keeps its zero value.
NewMultiTimings(n, ls, combineDimensions) ==
    /\ totalCount = 0
    /\ totalTime = 0
    /\ mu = MuFree
    /\ histograms = 1
    /\ maps = (1 :> EmptyMap)
    /\ hists = EmptyMap
    /\ name = n
    /\ labelCombined = FALSE
    /\ labels = ls
    /\ combinedLabels =
         [i \in 1..Len(ls) |-> IsDimensionCombined(ls[i], combineDimensions)]

InitMT ==
    /\ \E c \in {x \in HookConfigs : x.name # <<>>}, ls \in LabelLists,
          combineDimensions \in SUBSET {<<"x">>, <<"y">>} :
          /\ NewMultiTimings(c.name, ls, combineDimensions)
          /\ timerHook = c.timerHook
          /\ g = [NoHistory EXCEPT !.supplied = [i \in 1..Len(ls) |-> {}]]
    /\ pc = [t \in Threads |-> "idle"]
    /\ loc = [t \in Threads |-> NoLoc]
    /\ ret = [t \in Threads |-> NoRet]
    /\ hookCalls = [t \in Threads |-> <<>>]

\* The calls of a MultiTimings' own methods; the methods it inherits from the
\* embedded Timings are those of Next.
NextMT ==
    \E t \in Threads :
        \/ \E names \in NameLists, elapsed \in Durations :
              MultiTimingsAdd(t, names, elapsed)
        \/ \E names \in NameLists, elapsed \in Durations :
              MultiTimingsRecord(t, names, elapsed)
        \/ AddStep(t)

SpecMT == InitMT /\ [][NextMT]_vars

\* ------------------------------------------------------------- properties

\* No call is in flight.
Quiescent == \A t \in Threads : pc[t] = "idle"

\* The registry's category map.
TheMap == maps[histograms]

\* Thread t is inside Timings.Add.
InAdd(t) ==
    pc[t] \in {"Add_RLock", "Add_Lookup", "Add_RUnlock", "Add_Lock",
               "Add_LockWait", "Add_Insert", "Add_Unlock", "Add_Hook",
               "Add_HookRLock", "Add_HookRUnlock", "Add_Hist", "Add_Count",
               "Add_Time"}

\* Thread t is inside Timings.Add and holds the Histogram it resolved.
Resolved(t) ==
    \/ pc[t] \in {"Add_Unlock", "Add_Hook", "Add_HookRLock", "Add_HookRUnlock",
                 "Add_Hist", "Add_Count", "Add_Time"}
    \/ pc[t] = "Add_RUnlock" /\ loc[t].ok

\* The number of Add calls issued.
AddsIssued == SumOver(g.adds, DOMAIN g.adds)

\* What Counts() returns when called with nothing else running.
CountsNow ==
    CountsAll([k \in DOMAIN TheMap |-> HistogramCount(hists[TheMap[k]])],
              totalCount)

\* Thread t's last call ran with no other call in flight and no call has
\* started since it returned.
RanAlone(t) == ret[t].ops0 = g.ops /\ Quiescent

\* C1: for a non-combined Timings on which Reset was never called, once all
\* Add calls have returned, Count() is the number of Add calls issued and is
\* the sum of the entries of Counts() other than "All".
C1_CountIsAddsAndSumOfCounts ==
    (~labelCombined /\ g.resets = 0 /\ Quiescent) =>
        /\ totalCount = AddsIssued
        /\ totalCount = SumOver(CountsNow, DOMAIN CountsNow \ {All})

\* C2: with no Reset, concurrent Adds of a category that is not yet in the
\* map create one Histogram for it: no Add creates a second one or replaces
\* a map entry, every Add that has resolved its Histogram holds the one in
\* the map, distinct categories have distinct Histograms, and once the Adds
\* have returned each category's Histogram counts the Adds issued for it.
C2_OneHistogramPerCategory ==
    g.resets = 0 =>
        /\ \A c \in DOMAIN g.created :
              g.created[c] <= 1 /\ (c \in g.ctor => g.created[c] = 0)
        /\ \A t \in Threads :
              Resolved(t) =>
                  /\ loc[t].name \in DOMAIN TheMap
                  /\ TheMap[loc[t].name] = loc[t].hist
        /\ \A c, d \in DOMAIN TheMap : c # d => TheMap[c] # TheMap[d]
        /\ Quiescent =>
              \A c \in DOMAIN g.adds :
                  /\ c \in DOMAIN TheMap
                  /\ HistogramCount(hists[TheMap[c]]) = g.adds[c]

\* C2's case: an Add whose first lookup missed finds, under the exclusive
\* lock, the Histogram another Add created meanwhile.
C2_Witness ==
    \E t \in Threads :
        /\ pc[t] = "Add_Unlock"
        /\ loc[t].ok
        /\ g.resets = 0
        /\ Get(g.created, loc[t].name) = 1

\* C3 as stated: a combined Timings' map never holds more than one entry,
\* every Add resolves to the sentinel, and Counts() reports one category
\* plus "All" once an Add has returned.
C3_AtMostOneEntry ==
    labelCombined =>
        /\ Cardinality(DOMAIN TheMap) <= 1
        /\ \A t \in Threads : InAdd(t) => loc[t].name = StatsAllStr
        /\ (Quiescent /\ g.resets = 0 /\ AddsIssued >= 1) =>
              DOMAIN CountsNow = {StatsAllStr, All}

\* C3, amended: a combined Timings' map holds, besides the categories given
\* to NewTimings, at most the sentinel's entry; every Add resolves to the
\* sentinel and, with no Reset, lands in the sentinel's Histogram; Counts()
\* reports the sentinel, the constructor's categories and "All".
C3_OneEntryBesidesConstructor ==
    labelCombined =>
        /\ DOMAIN TheMap \subseteq g.ctor \cup {StatsAllStr}
        /\ Cardinality(DOMAIN TheMap \ g.ctor) <= 1
        /\ \A t \in Threads : InAdd(t) => loc[t].name = StatsAllStr
        /\ \A t \in Threads :
              (Resolved(t) /\ g.resets = 0) =>
                  loc[t].hist = TheMap[StatsAllStr]
        /\ (Quiescent /\ g.resets = 0 /\ AddsIssued >= 1) =>
              /\ DOMAIN CountsNow = g.ctor \cup {StatsAllStr, All}
              /\ CountsNow[StatsAllStr] = AddsIssued

\* C3's case: Adds of two different categories have returned on a combined
\* Timings.
C3_Witness ==
    /\ labelCombined
    /\ Quiescent
    /\ g.resets = 0
    /\ AddsIssued >= 2
    /\ totalCount >= 2

\* C4: a Counts() that ran with nothing else in flight returns one entry per
\* category of the map, under the category's name and holding its count,
\* and one more entry, "All", holding Count().
C4_CountsPerCategoryPlusAll ==
    \A t \in Threads :
        (ret[t].op = "Counts" /\ RanAlone(t)) =>
            /\ \A k \in DOMAIN TheMap :
                  /\ k \in DOMAIN ret[t].counts
                  /\ ret[t].counts[k] = HistogramCount(hists[TheMap[k]])
            /\ All \in DOMAIN ret[t].counts
            /\ ret[t].counts[All] = totalCount
            /\ Cardinality(DOMAIN ret[t].counts) = Cardinality(DOMAIN TheMap) + 1

\* C5: a Reset() that ran with nothing else in flight leaves the map empty
\* and Count() and Time() as they were when it was called.
C5_ResetKeepsTotals ==
    \A t \in Threads :
        (ret[t].op = "Reset" /\ RanAlone(t)) =>
            /\ DOMAIN TheMap = {}
            /\ totalCount = ret[t].count0
            /\ totalTime = ret[t].time0

\* C5's case: a Reset ran alone on a registry that had recorded something.
C5_Witness ==
    \E t \in Threads :
        /\ ret[t].op = "Reset"
        /\ RanAlone(t)
        /\ totalCount >= 1
        /\ totalTime >= 1

\* Thread t is inside a MultiTimings.Add or Record that passed the arity
\* check.
InMulti(t) == InAdd(t) /\ loc[t].names # <<>>

\* The category map and the totals are what they were, and thread t's call
\* has invoked no hook.
Untouched(t) ==
    /\ histograms' = histograms
    /\ maps'[histograms'] = maps[histograms]
    /\ \A h \in DOMAIN hists : h \in DOMAIN hists' /\ hists'[h] = hists[h]
    /\ totalCount' = totalCount
    /\ totalTime' = totalTime
    /\ hookCalls'[t] = <<>>
    /\ \A u \in Threads \ {t} : hookCalls'[u] = hookCalls[u]

\* C6: MultiTimings.Add and MultiTimings.Record called with a value list
\* whose length is not the number of dimensions panic, leaving the category
\* map, the Histograms, the total count and the total time unchanged and the
\* hook uncalled; no such call goes on into Timings.Add.  (Every call that
\* starts counts in g.ops, which is looked at first to pass over the steps
\* inside calls.)
C6_WrongArityPanics ==
    [][\A t \in Threads, names \in NameLists, elapsed \in Durations :
          (/\ g'.ops # g.ops
           /\ Len(names) # Len(labels)
           /\ \/ MultiTimingsAdd(t, names, elapsed)
              \/ MultiTimingsRecord(t, names, elapsed)) =>
              /\ ret'[t].op = "panic"
              /\ pc'[t] = "idle"
              /\ Untouched(t)]_vars

\* C6's case: a call has panicked on a registry that holds an observation.
C6_Witness ==
    \E t \in Threads :
        /\ ret[t].op = "panic"
        /\ totalCount >= 1
        /\ DOMAIN TheMap # {}

\* Value lists a and b are each other with the values at i and j exchanged.
Swapped(a, b, i, j) ==
    /\ Len(a) = Len(b)
    /\ a[i] = b[j]
    /\ a[j] = b[i]
    /\ \A k \in DOMAIN a \ {i, j} : a[k] = b[k]

AgreeOnKept(a, b) ==
    /\ Len(a) = Len(b)
    /\ \A i \in DOMAIN a : ~combinedLabels[i] => a[i] = b[i]

RECURSIVE KeptProduct(_, _)
\* The product, over the non-combined dimensions among the first n, of the
\* number of distinct values supplied for the dimension.
KeptProduct(sup, n) ==
    IF n = 0 THEN 1
    ELSE (IF combinedLabels[n] THEN 1 ELSE Cardinality(sup[n]))
             * KeptProduct(sup, n - 1)

\* C9: the category map of a MultiTimings never holds more entries than the
\* product, over the non-combined dimensions, of the number of distinct
\* values supplied for the dimension.
C9_MapBoundedByKeptDimensions ==
    Cardinality(DOMAIN TheMap) <= KeptProduct(g.supplied, Len(labels))

\* C9's case: two distinct values were supplied for a combined dimension and
\* the map holds one entry.
C9_Witness ==
    /\ Quiescent
    /\ \E i \in DOMAIN combinedLabels :
          combinedLabels[i] /\ Cardinality(g.supplied[i]) = 2
    /\ Cardinality(DOMAIN TheMap) = 1
    /\ totalCount = 2

\* Thread t's step is an assignment to, or a deletion from, the map it got
\* from Histograms().
CallerWrites(t) ==
    \/ \E k \in CategoryNames, v \in 1..MaxOps : CallerAssign(t, k, v)
    \/ \E k \in CategoryNames : CallerDelete(t, k)

\* C10: Histograms() returns a new map object holding the entries of the
\* registry's map; a caller's writes to the map it was returned leave the
\* registry's map as it was; and no step but its holder's own writes (no
\* Add, no Reset, no other caller) changes a map that was returned.
C10_HistogramsReturnsCopy ==
    [][/\ \A t \in Threads :
            (pc[t] = "Histograms_Copy" /\ pc'[t] = "Histograms_RUnlock") =>
                /\ ret'[t].h \notin DOMAIN maps
                /\ ret'[t].h # histograms'
                /\ maps'[ret'[t].h] = maps[histograms]
       /\ (\E t \in Threads : CallerWrites(t)) =>
                /\ histograms' = histograms
                /\ maps'[histograms'] = maps[histograms]
       /\ \A u \in Threads :
            (ret[u].op = "Histograms" /\ ret'[u] = ret[u] /\ ~CallerWrites(u)) =>
                maps'[ret[u].h] = maps[ret[u].h]]_vars

\* C10's case: a caller holds a returned map that no longer has the entries
\* of the registry's map.
C10_Witness ==
    \E t \in Threads :
        /\ pc[t] = "idle"
        /\ ret[t].op = "Histograms"
        /\ maps[ret[t].h] # TheMap
        /\ DOMAIN TheMap # {}

\* Thread t's step starts a call of Timings.Add or Timings.Record with
\* category n and elapsed time elapsed.
StartsAdd(t, n, elapsed) ==
    /\ g'.ops # g.ops
    /\ Add(t, n, elapsed) \/ Record(t, n, elapsed)

\* Thread t's step is the return of its Add.
ReturnsFromAdd(t) == pc[t] = "Add_Time" /\ pc'[t] = "idle"

\* An Add goes on with the category it resolved at its start (the sentinel
\* when combined, else the category passed; for MultiTimings the joined
\* compound key) and with the elapsed time passed, and returns having invoked
\* the hook once, with the registry's name, that category and the elapsed
\* time in whole milliseconds, if invoke holds, and not at all if not.
HookOncePerAddIf(invoke) ==
    \A t \in Threads :
        /\ \A n \in CategoryNames, elapsed \in Durations :
              StartsAdd(t, n, elapsed) =>
                  /\ loc'[t].name = (IF labelCombined THEN StatsAllStr ELSE n)
                  /\ loc'[t].elapsed = elapsed
        /\ (InAdd(t) /\ InAdd(t)') =>
              /\ loc'[t].name = loc[t].name
              /\ loc'[t].elapsed = loc[t].elapsed
              /\ InMulti(t) =>
                    loc[t].name = safeJoinLabels(loc[t].names, combinedLabels)
        /\ ReturnsFromAdd(t) =>
              IF invoke
              THEN /\ Len(hookCalls'[t]) = 1
                   /\ hookCalls'[t][1].name = name
                   /\ hookCalls'[t][1].category = loc[t].name
                   /\ hookCalls'[t][1].ms * 1000000 <= loc[t].elapsed
                   /\ loc[t].elapsed < (hookCalls'[t][1].ms + 1) * 1000000
              ELSE hookCalls'[t] = <<>>

\* C11 as stated: whenever a timer hook is configured, every Add (and every
\* Record, which reaches Add) invokes it exactly once, with the registry
\* name, the resolved category and the elapsed time in whole milliseconds;
\* with no hook configured nothing is invoked.
C11_HookOncePerAdd == [][HookOncePerAddIf(timerHook)]_vars

\* C11, amended: the same of every Add on a registry that has a name; on a
\* registry without a name nothing is invoked, hook or no hook.
C11_HookOncePerAddOfNamed ==
    [][HookOncePerAddIf(timerHook /\ name # <<>>)]_vars

\* C11's case: on a combined registry an Add of 1.5 ms has returned, having
\* invoked the hook once with the sentinel and 1 ms.
C11_Witness ==
    \E t \in Threads :
        /\ ret[t].op = "Add"
        /\ labelCombined
        /\ Len(hookCalls[t]) = 1
        /\ hookCalls[t][1].category = StatsAllStr
        /\ hookCalls[t][1].ms = 1

\* Some thread's step is the assignment of line 67, Reset's replacement of
\* the map.
ResetReplaces == \E t \in Threads : pc[t] = "Reset_Write" /\ pc'[t] = "Reset_RUnlock"

\* C12: no step of Add, Record, Histograms, Counts, Count, Time or String (no
\* step at all but Reset's replacement of the map) removes a category from
\* the registry's map or replaces the Histogram stored under a category;
\* Reset's replacement leaves no category.
C12_CategoriesOnlyGrow ==
    [][IF ResetReplaces
       THEN DOMAIN maps'[histograms'] = {}
       ELSE \A k \in DOMAIN TheMap :
               /\ k \in DOMAIN maps'[histograms']
               /\ maps'[histograms'][k] = TheMap[k]]_vars

\* C12's case: after Adds and a Reset, an Add has put a category into the map
\* again.
C12_Witness ==
    /\ Quiescent
    /\ g.resets >= 1
    /\ DOMAIN TheMap # {}
    /\ totalCount >= 2

\* Thread t's step is a call of Time().
CallsTime(t) == g'.ops # g.ops /\ Time(t)

\* C13: whenever every Add issued has returned, whatever the interleaving of
\* the Adds and whether or not Resets ran, the total time is the sum of the
\* elapsed times (in nanoseconds) of all the Adds issued, and that is what a
\* Time() called then returns.
C13_TimeIsSumOfElapsed ==
    /\ []((\A t \in Threads : ~InAdd(t)) => totalTime = g.time)
    /\ [][\A t \in Threads :
            (CallsTime(t) /\ \A u \in Threads : ~InAdd(u)) =>
                ret'[t].value = g.time]_vars

\* C13's case: Adds of 1.5 ms and of 2 ms have returned and a Time() called
\* after them returned 3500000.
C13_Witness ==
    \E t \in Threads :
        /\ ret[t].op = "Time"
        /\ ret[t].value = 3500000
        /\ Quiescent

\* The resolved categories of the Adds that have passed their lookup-or-insert
\* step: of those issued for a category, not all are still before it.
Passed ==
    {c \in DOMAIN g.adds :
        g.adds[c] > Cardinality({t \in Threads :
                                    /\ InAdd(t)
                                    /\ ~Resolved(t)
                                    /\ loc[t].name = c})}

C15_HookSeesItsObservation ==
    \A t \in Threads :
        \A i \in DOMAIN hookCalls[t] :
            /\ hookCalls[t][i].count >= 1
            /\ hookCalls[t][i].histCount >= 1

\* Thread t holds the lock in neither mode.
HoldsNoLock(t) == t \notin mu.r /\ mu.w # t

\* C16: an Add's first lookup, made under the shared lock, finds the category
\* exactly if it is in the map then; an Add whose lookup found it releases
\* the shared lock and goes on to the hook and the recording; only an Add
\* whose lookup missed goes to Lock, and only such an Add ever announces
\* itself as writer or holds the lock exclusively; and the Histogram is
\* recorded into and the two totals are updated while the Add holds the lock
\* in no mode.
C16_HitNeverLocksExclusively ==
    /\ [](\A t \in Threads :
            /\ pc[t] \in {"Add_Hook", "Add_Hist", "Add_Count", "Add_Time"} =>
                  HoldsNoLock(t)
            /\ mu.w = t =>
                  pc[t] \in {"Add_LockWait", "Add_Insert", "Add_Unlock"}
            /\ (InAdd(t) /\ t \in mu.r) =>
                  pc[t] \in {"Add_Lookup", "Add_RUnlock", "Add_HookRUnlock"})
    /\ [][\A t \in Threads :
            /\ (pc[t] = "Add_Lookup" /\ pc'[t] = "Add_RUnlock") =>
                  loc'[t].ok = (loc[t].name \in DOMAIN TheMap)
            /\ (pc[t] = "Add_RUnlock" /\ pc'[t] # pc[t] /\ loc[t].ok) =>
                  /\ pc'[t] = "Add_Hook"
                  /\ t \notin mu'.r
                  /\ mu'.w # t
            /\ (pc'[t] = "Add_Lock" /\ pc[t] # "Add_Lock") =>
                  pc[t] = "Add_RUnlock" /\ ~loc[t].ok
            /\ (mu'.w = t /\ mu.w # t) => pc[t] = "Add_Lock"]_vars

\* C16's case: an Add of a category that has been in the map since
\* construction is about to update the total while another Add, whose lookup
\* missed, holds the lock exclusively.
C16_Witness ==
    \E t, u \in Threads :
        /\ g.resets = 0
        /\ pc[t] = "Add_Count"
        /\ loc[t].name \in g.ctor
        /\ pc[u] = "Add_Insert"
        /\ mu.w = u

\* Thread t is about to write the category map: the insertion of line 87 or
\* Reset's assignment of line 67.
WritesMap(t) == pc[t] \in {"Add_Insert", "Reset_Write"}

\* Thread t is at a read of the category map or of the field that names it:
\* Add's lookups, the loops of Histograms and Counts, String's read of the
\* field and its marshalling.
ReadsMap(t) ==
    pc[t] \in {"Add_Lookup", "Add_Insert", "Histograms_Copy", "Counts_Range",
               "Counts_Iter", "String_Field", "String_Marshal"}

\* C17: a thread that is about to write the category map holds the lock in
\* exclusive mode, and no other thread is then at a read or a write of it.
C17_MapWritesAreExclusive ==
    \A t \in Threads :
        WritesMap(t) =>
            /\ mu.w = t
            /\ mu.r = {}
            /\ \A u \in Threads \ {t} : ~ReadsMap(u) /\ ~WritesMap(u)

\* The sum of the counts of the Histograms in the registry's map.
SumOfHistogramCounts ==
    SumOver([k \in DOMAIN TheMap |-> HistogramCount(hists[TheMap[k]])],
            DOMAIN TheMap)

\* The Adds that have recorded into their Histogram and not yet incremented
\* the total count.
RecordedNotCounted == {t \in Threads : pc[t] = "Add_Count"}

\* C18: on a Timings on which Reset is never called, in every state the total
\* count is at most the sum of the counts of the Histograms in the map, that
\* sum is at most the total count plus the number of Adds that have recorded
\* and not yet incremented the total, and the two are equal when no Add is in
\* flight.
C18_TotalTrailsHistograms ==
    g.resets = 0 =>
        /\ totalCount <= SumOfHistogramCounts
        /\ SumOfHistogramCounts <= totalCount + Cardinality(RecordedNotCounted)
        /\ (\A t \in Threads : ~InAdd(t)) => totalCount = SumOfHistogramCounts

\* C18's case: with one Add returned, two Adds have both recorded into their
\* Histograms and neither has incremented the total yet.
C18_Witness ==
    /\ g.resets = 0
    /\ totalCount = 1
    /\ Cardinality(RecordedNotCounted) = 2
    /\ SumOfHistogramCounts = 3

\* C19: once all calls have returned, with Resets having run among the Adds,
\* Count() minus the value the total count had when the last Reset replaced
\* the map is the sum of the entries of Counts() other than "All".
C19_CountSinceResetIsSumOfCounts ==
    (Quiescent /\ g.resets >= 1) =>
        totalCount - g.base = SumOver(CountsNow, DOMAIN CountsNow \ {All})

\* The statements at which a thread asks for the lock.
AsksForLock(t) ==
    pc[t] \in {"Add_RLock", "Add_Lock", "Reset_RLock", "Histograms_RLock",
               "Counts_RLock", "String_RLock", "Add_HookRLock"}

\* C20: no thread holds the lock, in either mode, when it invokes the hook,
\* while the hook runs, or when it asks for the lock; a thread waiting for
\* the exclusive lock holds no shared one; in every state with a call in
\* flight some thread inside a call can take a step (no deadlock), also when
\* the hook calls Counts() on the registry; and under fair scheduling every
\* call returns.
C20_NoDeadlockEveryCallReturns ==
    /\ [](\A t \in Threads :
            /\ pc[t] \in {"Add_Hook", "Add_HookRLock"} => HoldsNoLock(t)
            /\ AsksForLock(t) => HoldsNoLock(t)
            /\ pc[t] = "Add_LockWait" => t \notin mu.r)
    /\ [](~Quiescent => \E t \in Threads : ENABLED Step(t))
    /\ \A t \in Threads : (pc[t] # "idle") ~> (pc[t] = "idle")

\* C20's case: a hook's Counts() asks for the shared lock while another Add
\* holds the lock exclusively for its insertion.
C20_Witness ==
    \E t, u \in Threads :
        /\ pc[t] = "Add_HookRLock"
        /\ pc[u] = "Add_Insert"
        /\ mu.w = u

====
